---- MODULE Spec2Model ----
(***************************************************************************)
(* Oracle-Fixed-Bug-List: the two report generators, parse_bugs.py         *)
(* (parse_bugs_from_zip) and parse_bugs_old.py (process_all_xml_files).    *)
(* Each lists the *.zip archives of a directory, sorts them by the version *)
(* embedded in the file name, reads the inventory.xml descriptors inside,  *)
(* and writes one report of patch headers and de-duplicated bug lines.     *)
(*                                                                         *)
(* A Python str is a sequence of one-character strings; Python's None is   *)
(* the value None below.  A rendered line is the tuple of the pieces of    *)
(* its f-string, literal pieces as TLA+ strings.                           *)
(***************************************************************************)
EXTENDS Integers, Sequences, FiniteSets, TLC

\* ------------------------------------------------------------ Python values

\* Python's None: a value no str equals.
None == <<"<None>">>

\* str(v), as an f-string renders a field: None is rendered "None".
PyStr(v) == IF v = None THEN <<"N", "o", "n", "e">> ELSE v

\* Truthiness of a str-or-None value: None and "" are false.
Truthy(v) == v # None /\ v # <<>>

\* v or "" (the default of a missing attribute).
OrEmpty(v) == IF Truthy(v) THEN v ELSE <<>>

\* The characters that occur in file names, in code point order: Ord is
\* order-isomorphic to Python's ord on them.
Ascii == <<".", "/", "0", "1", "2", "3", "4", "5", "6", "7", "8", "9",
           "R", "U", "_", "a", "b", "e", "i", "p", "q", "s", "z">>

Ord(c) == CHOOSE i \in 1..Len(Ascii) : Ascii[i] = c

IsDigit(c) == c \in {"0", "1", "2", "3", "4", "5", "6", "7", "8", "9"}

DigitValue(c) == Ord(c) - Ord("0")

\* lit occurs in s at index i.
OccursAt(s, i, lit) ==
    /\ i >= 1
    /\ i + Len(lit) - 1 <= Len(s)
    /\ \A k \in 1..Len(lit) : s[i + k - 1] = lit[k]

\* s.find(lit), 1-based; 0 when lit does not occur (lit in s is Find # 0).
Find(s, lit) ==
    LET hits == {i \in 1..Len(s) : OccursAt(s, i, lit)}
    IN  IF hits = {} THEN 0 ELSE CHOOSE i \in hits : \A j \in hits : i <= j

\* s.rfind(lit), 1-based; 0 when lit does not occur.
RFind(s, lit) ==
    LET hits == {i \in 1..Len(s) : OccursAt(s, i, lit)}
    IN  IF hits = {} THEN 0 ELSE CHOOSE i \in hits : \A j \in hits : i >= j

\* s.endswith(suffix)
EndsWith(s, suffix) ==
    Len(suffix) <= Len(s) /\ OccursAt(s, Len(s) - Len(suffix) + 1, suffix)

\* s[i:] with a 1-based i.
From(s, i) == SubSeq(s, i, Len(s))

\* os.path.basename(path): what follows the last "/".
basename(path) == From(path, RFind(path, <<"/">>) + 1)

\* os.path.splitext(name)[0]: the name up to its last ".", unless only dots
\* come before that dot.
splitext(name) ==
    LET dot == RFind(name, <<".">>)
    IN  IF dot > 0 /\ \E j \in 1..(dot - 1) : name[j] # "."
        THEN SubSeq(name, 1, dot - 1)
        ELSE name

\* The fixed marker of the file names.
RU_ == <<"R", "U", "_">>

\* name.split("RU_", 1)[1] if "RU_" in name else name: the version token,
\* which is also the display name of the archive.
version_of(name) ==
    LET at == Find(name, RU_)
    IN  IF at # 0 THEN From(name, at + Len(RU_)) ELSE name

\* int(part) of a run of decimal digits (Python's int has no width).
RECURSIVE int(_)
int(part) ==
    IF part = <<>> THEN 0
    ELSE 10 * int(SubSeq(part, 1, Len(part) - 1)) + DigitValue(part[Len(part)])

\* [int(part) for part in re.split(r"[^\d]+", version) if part.isdigit()]:
\* the integers of the maximal digit runs of version, in order.  run is the
\* digit run being read.
RECURSIVE digit_runs(_, _)
digit_runs(version, run) ==
    IF version = <<>>
    THEN IF run = <<>> THEN <<>> ELSE <<int(run)>>
    ELSE IF IsDigit(Head(version))
         THEN digit_runs(Tail(version), Append(run, Head(version)))
         ELSE (IF run = <<>> THEN <<>> ELSE <<int(run)>>)
              \o digit_runs(Tail(version), <<>>)

\* A key that ignores the numbers: plain string order of the version token.
version_key_lexical(path) ==
    <<<<>>, version_of(splitext(basename(path)))>>

\* _version_key(path): (tuple(numbers), version).
_version_key(path) ==
    LET version == version_of(splitext(basename(path)))
    IN  <<digit_runs(version, <<>>), version>>

\* Python's < on two tuples of int: the first differing element decides, and a
\* proper prefix is smaller.
RECURSIVE IntTupleLess(_, _)
IntTupleLess(s, t) ==
    IF t = <<>> THEN FALSE
    ELSE IF s = <<>> THEN TRUE
    ELSE IF Head(s) # Head(t) THEN Head(s) < Head(t)
    ELSE IntTupleLess(Tail(s), Tail(t))

\* Python's < on two str: by code point, a proper prefix is smaller.
RECURSIVE StrLess(_, _)
StrLess(s, t) ==
    IF t = <<>> THEN FALSE
    ELSE IF s = <<>> THEN TRUE
    ELSE IF Head(s) # Head(t) THEN Ord(Head(s)) < Ord(Head(t))
    ELSE StrLess(Tail(s), Tail(t))

\* Python's < on two keys (tuple(numbers), version).
KeyLess(k1, k2) ==
    \/ IntTupleLess(k1[1], k2[1])
    \/ k1[1] = k2[1] /\ StrLess(k1[2], k2[2])

\* The list with x put after every element whose key is not greater.
RECURSIVE insert_sorted(_, _)
insert_sorted(list, x) ==
    IF list = <<>> THEN <<x>>
    ELSE IF KeyLess(_version_key(x), _version_key(Head(list)))
         THEN <<x>> \o list
         ELSE <<Head(list)>> \o insert_sorted(Tail(list), x)

\* sorted(list, key=_version_key): ascending and stable.
RECURSIVE sorted(_)
sorted(list) ==
    IF list = <<>> THEN <<>>
    ELSE insert_sorted(sorted(SubSeq(list, 1, Len(list) - 1)), list[Len(list)])

\* ------------------------------------------------------- descriptor parsing

\* root.find('patch_description') is None: the descriptor has no such element.
Absent == <<"<absent>">>

\* patch_desc.text if patch_desc is not None else "": the text of the element
\* (None when the element is empty), "" when there is no element.
patch_text_of(root) ==
    IF root.patch_description = Absent THEN <<>> ELSE root.patch_description

IsSpace(c) == c \in {" ", "\t", "\n"}

\* The first index from i on that holds no white space (\s*).
RECURSIVE skip_spaces(_, _)
skip_spaces(text, i) ==
    IF i <= Len(text) /\ IsSpace(text[i]) THEN skip_spaces(text, i + 1) ELSE i

\* The end of the longest run of digits and dots that starts at i ([\d.]+).
RECURSIVE run_end(_, _)
run_end(text, i) ==
    IF i + 1 <= Len(text) /\ (IsDigit(text[i + 1]) \/ text[i + 1] = ".")
    THEN run_end(text, i + 1)
    ELSE i

Database_Release_Update == <<"D", "a", "t", "a", "b", "a", "s", "e", " ", "R", "e", "l", "e", "a", "s", "e", " ", "U", "p", "d", "a", "t", "e">>

\* Where group 1 starts when the pattern
\*   Database Release Update\s*:\s*([\d.]+)
\* matches at index i of text, else 0.
group_start(text, i) ==
    IF ~OccursAt(text, i, Database_Release_Update) THEN 0
    ELSE LET colon == skip_spaces(text, i + Len(Database_Release_Update))
         IN  IF ~(colon <= Len(text) /\ text[colon] = ":") THEN 0
             ELSE LET g == skip_spaces(text, colon + 1)
                  IN  IF g <= Len(text) /\ (IsDigit(text[g]) \/ text[g] = ".")
                      THEN g
                      ELSE 0

\* re.search(pattern, patch_text): group 1 of the leftmost match, or None.
re_search(text) ==
    LET starts == {i \in 1..Len(text) : group_start(text, i) # 0}
    IN  IF starts = {} THEN None
        ELSE LET i == CHOOSE i \in starts : \A j \in starts : i <= j
                 g == group_start(text, i)
             IN  SubSeq(text, g, run_end(text, g))

\* The first sub-version found stays.
keep_first_db_version(last_db_version, patch_text) ==
    IF last_db_version # None THEN last_db_version
    ELSE IF re_search(patch_text) # None THEN re_search(patch_text)
    ELSE last_db_version

\* match = re.search(...); if match: last_db_version = match.group(1)
update_last_db_version(last_db_version, patch_text) ==
    IF re_search(patch_text) # None THEN re_search(patch_text)
    ELSE last_db_version

\* [(number, description or "") for each bug element whose number is truthy]
RECURSIVE numbered_bugs(_)
numbered_bugs(bugs) ==
    IF bugs = <<>> THEN <<>>
    ELSE (IF Truthy(Head(bugs).number)
          THEN <<[number |-> Head(bugs).number,
                  description |-> OrEmpty(Head(bugs).description)]>>
          ELSE <<>>)
         \o numbered_bugs(Tail(bugs))

\* parse_bugs_from_xml_content(xml_content): (patch_text, bug_list); ("", [])
\* when the content is not well-formed (ET.ParseError is caught).
parse_bugs_from_xml_content(xml_content) ==
    IF ~xml_content.wellformed
    THEN [patch_text |-> <<>>, bug_list |-> <<>>]
    ELSE [patch_text |-> patch_text_of(xml_content),
          bug_list |-> numbered_bugs(xml_content.bugs)]

\* ------------------------------------------------------------ report lines

\* f"### RU {display_name}\n"
header_line(display_name) == <<"### RU ", display_name, "\n">>

\* f" *** {patch_text}\n"
description_line(patch_text) == <<" *** ", patch_text, "\n">>

\* f"     BUG {number} - {description}\n"
bug_line(number, description) ==
    <<"     BUG ", PyStr(number), " - ", description, "\n">>

IsHeader(line) == Len(line) = 3 /\ line[1] = "### RU "

IsDescription(line) == Len(line) = 3 /\ line[1] = " *** "

IsBugLine(line) == Len(line) = 5

\* d with key k set to v (d[k] = v on a dict).
dict_set(d, k, v) ==
    [x \in DOMAIN d \cup {k} |-> IF x = k THEN v ELSE d[x]]

\* Every number counts as new.
never_seen(number, bug_positions) == FALSE

\* number in bug_positions
already_seen(number, bug_positions) == number \in DOMAIN bug_positions

\* The index after the next free one.
position_off_by_one(output_lines) == Len(output_lines) + 1

\* len(output_lines): the (0-based) index the next appended line gets.
next_position(output_lines) == Len(output_lines)

\* ------------------------------------------------------------------- state

VARIABLES
    program,          \* the entry point that runs: "parse_bugs" or "parse_bugs_old"
    directory,        \* the *.zip files of the directory: path -> archive file
    listing,          \* glob.glob's result: the paths, in the order the directory lists them
    pc,               \* where the run is
    exception,        \* the exception that ended the run ("" for none)
    zip_files,        \* the sorted paths
    zi,               \* position of "for zip_file in zip_files" (1-based)
    inventory_files,  \* member names of the open archive ending in inventory.xml
    ii,               \* position of "for inv_file in inventory_files"
    root,             \* parse_bugs: the parsed descriptor
    found_xmls,       \* parse_bugs_old: (zip_file, xml_content, file_basename) triples
    xi,               \* position of "for ... in zip_xmls"
    patch_text,       \* the patch description text of the descriptor at hand
    bug_list,         \* parse_bugs_old: the (number, description) pairs at hand
    bi,               \* position of the loop over the bugs of the descriptor at hand
    output_lines,     \* the lines to write
    bug_positions,    \* the bug numbers already put out
    last_db_version,  \* the last "Database Release Update :" version seen, or None
    total_bugs,       \* parse_bugs_old: count of bug lines
    processed_count,  \* parse_bugs_old: count of descriptors with a block
    output_file,      \* the name of the file written, None before
    written           \* the content of the file written

vars == <<program, directory, listing, pc, exception, zip_files, zi,
          inventory_files, ii, root, found_xmls, xi, patch_text, bug_list, bi,
          output_lines, bug_positions, last_db_version, total_bugs,
          processed_count, output_file, written>>

\* The state as one record, for the steps below, which are functions of it.
State ==
    [program |-> program, directory |-> directory, listing |-> listing,
     pc |-> pc, exception |-> exception, zip_files |-> zip_files, zi |-> zi,
     inventory_files |-> inventory_files, ii |-> ii, root |-> root,
     found_xmls |-> found_xmls, xi |-> xi, patch_text |-> patch_text,
     bug_list |-> bug_list, bi |-> bi, output_lines |-> output_lines,
     bug_positions |-> bug_positions, last_db_version |-> last_db_version,
     total_bugs |-> total_bugs, processed_count |-> processed_count,
     output_file |-> output_file, written |-> written]

\* The next state is the record s.
Becomes(s) ==
    /\ program' = s.program
    /\ directory' = s.directory
    /\ listing' = s.listing
    /\ pc' = s.pc
    /\ exception' = s.exception
    /\ zip_files' = s.zip_files
    /\ zi' = s.zi
    /\ inventory_files' = s.inventory_files
    /\ ii' = s.ii
    /\ root' = s.root
    /\ found_xmls' = s.found_xmls
    /\ xi' = s.xi
    /\ patch_text' = s.patch_text
    /\ bug_list' = s.bug_list
    /\ bi' = s.bi
    /\ output_lines' = s.output_lines
    /\ bug_positions' = s.bug_positions
    /\ last_db_version' = s.last_db_version
    /\ total_bugs' = s.total_bugs
    /\ processed_count' = s.processed_count
    /\ output_file' = s.output_file
    /\ written' = s.written

\* The state in which prog starts on the directory dir listed in order list.
start(prog, dir, list) ==
    [program |-> prog, directory |-> dir, listing |-> list,
     pc |-> "glob", exception |-> "", zip_files |-> <<>>, zi |-> 0,
     inventory_files |-> <<>>, ii |-> 0, root |-> None,
     found_xmls |-> <<>>, xi |-> 0, patch_text |-> None,
     bug_list |-> <<>>, bi |-> 0, output_lines |-> <<>>,
     bug_positions |-> <<>>, last_db_version |-> None,
     total_bugs |-> 0, processed_count |-> 0,
     output_file |-> None, written |-> <<>>]

\* ------------------------------------------------------- steps of both runs

inventory_xml == <<"i", "n", "v", "e", "n", "t", "o", "r", "y", ".", "x", "m", "l">>

\* [name for name in z.namelist() if name.endswith('inventory.xml')]
RECURSIVE inventory_names(_)
inventory_names(members) ==
    IF members = <<>> THEN <<>>
    ELSE (IF EndsWith(Head(members).name, inventory_xml)
          THEN <<Head(members).name>> ELSE <<>>)
         \o inventory_names(Tail(members))

\* z.read(name): the content of the member called name.
z_read(archive, name) ==
    LET i == CHOOSE i \in 1..Len(archive.members) : archive.members[i].name = name
    IN  archive.members[i].data

\* zip_files = sorted(glob.glob(...), key=_version_key)
glob_sorted(s) ==
    [s EXCEPT !.zip_files = sorted(s.listing), !.zi = 1, !.pc = "for_zip"]

\* The header and description lines of a block, and the sub-version of its
\* text: what both programs do for a descriptor they put out.
open_block(s, display_name, text) ==
    [s EXCEPT
       !.output_lines = s.output_lines
                          \o <<header_line(display_name), description_line(text)>>,
       !.last_db_version = update_last_db_version(s.last_db_version, text),
       !.bi = 1,
       !.pc = "for_bug"]

\* ---------------------------------------------- parse_bugs.py, step by step

\* if patch_text:
block_condition(text) == Truthy(text)

\* with zipfile.ZipFile(zip_file, 'r') as z: a file that is no archive raises
\* zipfile.BadZipFile, which nothing catches.
open_zip(s) ==
    LET archive == s.directory[s.zip_files[s.zi]]
    IN  IF archive.corrupt
        THEN [s EXCEPT !.pc = "raised", !.exception = "zipfile.BadZipFile"]
        ELSE [s EXCEPT !.inventory_files = inventory_names(archive.members),
                       !.ii = 1, !.pc = "for_inv"]

\* The body of "for inv_file in inventory_files" up to the loop over the bugs:
\* ET.parse raises ET.ParseError, which nothing catches, on content that is
\* not well-formed.
read_inventory(s) ==
    LET zip_file == s.zip_files[s.zi]
        xml_content == z_read(s.directory[zip_file], s.inventory_files[s.ii])
        text == patch_text_of(xml_content)
    IN  IF ~xml_content.wellformed
        THEN [s EXCEPT !.pc = "raised", !.exception = "ET.ParseError"]
        ELSE IF block_condition(text)
             THEN open_block([s EXCEPT !.root = xml_content, !.patch_text = text],
                             version_of(splitext(basename(zip_file))), text)
             ELSE [s EXCEPT !.root = xml_content, !.patch_text = text,
                            !.ii = s.ii + 1]

\* The body of "for bug in root.findall('.//bug')".
process_bug(s) ==
    LET bug == s.root.bugs[s.bi]
        number == bug.number
        description == OrEmpty(bug.description)
    IN  IF already_seen(number, s.bug_positions)
        THEN [s EXCEPT !.bi = s.bi + 1]
        ELSE [s EXCEPT
                !.bug_positions = dict_set(s.bug_positions, number,
                                           next_position(s.output_lines)),
                !.output_lines = Append(s.output_lines, bug_line(number, description)),
                !.bi = s.bi + 1]

\* The loop over the bugs ends: the next inventory.xml of the archive.
end_bugs(s) == [s EXCEPT !.ii = s.ii + 1, !.pc = "for_inv"]

\* The loop over the inventory files ends: the archive is closed, the next one.
close_zip(s) == [s EXCEPT !.zi = s.zi + 1, !.pc = "for_zip"]

\* The loop over the archives ends.
end_zips(s) == [s EXCEPT !.pc = "name"]

\* --------------------------------------- parse_bugs_old.py, step by step

\* The (zip_file, xml_content, file_basename) triples of the names, in order.
RECURSIVE triples(_, _, _)
triples(zip_file, archive, names) ==
    IF names = <<>> THEN <<>>
    ELSE <<[zip_file |-> zip_file,
            xml_content |-> z_read(archive, Head(names)),
            file_basename |-> splitext(basename(zip_file))]>>
         \o triples(zip_file, archive, Tail(names))

\* process_zip_files, one archive: zipfile.BadZipFile is caught and the
\* archive left out.
scan_zip(s) ==
    LET zip_file == s.zip_files[s.zi]
        archive == s.directory[zip_file]
    IN  IF archive.corrupt
        THEN [s EXCEPT !.zi = s.zi + 1]
        ELSE [s EXCEPT
                !.found_xmls = s.found_xmls
                    \o triples(zip_file, archive, inventory_names(archive.members)),
                !.zi = s.zi + 1]

\* process_zip_files returns; "if not zip_xmls: return None".
end_scan(s) ==
    IF s.found_xmls = <<>>
    THEN [s EXCEPT !.pc = "returned"]
    ELSE [s EXCEPT !.xi = 1, !.pc = "for_xml"]

\* A descriptor gets a block as soon as it has a patch description.
block_condition_text_only(text, bugs) == Truthy(text)

\* if patch_text and bug_list:
block_condition_old(text, bugs) == Truthy(text) /\ bugs # <<>>

\* The body of "for zip_file, xml_content, file_basename in zip_xmls" up to the
\* loop over the bugs.
parse_xml(s) ==
    LET found == s.found_xmls[s.xi]
        parsed == parse_bugs_from_xml_content(found.xml_content)
        t == [s EXCEPT !.patch_text = parsed.patch_text,
                       !.bug_list = parsed.bug_list]
    IN  IF block_condition_old(parsed.patch_text, parsed.bug_list)
        THEN open_block(t, version_of(found.file_basename), parsed.patch_text)
        ELSE [t EXCEPT !.xi = s.xi + 1]

\* The body of "for number, description in bug_list".
process_bug_old(s) ==
    LET number == s.bug_list[s.bi].number
        description == s.bug_list[s.bi].description
    IN  IF already_seen(number, s.bug_positions)
        THEN [s EXCEPT !.bi = s.bi + 1]
        ELSE [s EXCEPT
                !.bug_positions = dict_set(s.bug_positions, number, TRUE),
                !.output_lines = Append(s.output_lines, bug_line(number, description)),
                !.total_bugs = s.total_bugs + 1,
                !.bi = s.bi + 1]

\* The loop over the bugs ends: processed_count += 1, the next descriptor.
end_bugs_old(s) ==
    [s EXCEPT !.processed_count = s.processed_count + 1,
              !.xi = s.xi + 1, !.pc = "for_xml"]

\* The loop over the descriptors ends.
end_xmls(s) == [s EXCEPT !.pc = "name"]

\* ------------------------------------------------------ writing the report

\* f"Fixed_Bug_For_{last_db_version}_{today}.txt" if last_db_version else
\* f"Fixed_Bug_{today}.txt"
default_name(last, today) ==
    IF Truthy(last)
    THEN <<"Fixed_Bug_For_", last, "_", today, ".txt">>
    ELSE <<"Fixed_Bug_", today, ".txt">>

\* The end of both entry points: the name (the argument, or the default one
\* when the argument is None), and the lines written to the file.
write_output(s, arg, today) ==
    [s EXCEPT
       !.output_file = IF arg = None THEN default_name(s.last_db_version, today)
                       ELSE arg,
       !.written = s.output_lines,
       !.pc = "done"]

\* ---------------------------------------------------- the run as a function

\* The one step the run takes from s, while it is before the naming of the
\* output file.
step(s) ==
    IF s.pc = "glob" THEN glob_sorted(s)
    ELSE IF s.program = "parse_bugs"
    THEN CASE s.pc = "for_zip" ->
                IF s.zi <= Len(s.zip_files) THEN open_zip(s) ELSE end_zips(s)
           [] s.pc = "for_inv" ->
                IF s.ii <= Len(s.inventory_files) THEN read_inventory(s)
                ELSE close_zip(s)
           [] s.pc = "for_bug" ->
                IF s.bi <= Len(s.root.bugs) THEN process_bug(s) ELSE end_bugs(s)
    ELSE CASE s.pc = "for_zip" ->
                IF s.zi <= Len(s.zip_files) THEN scan_zip(s) ELSE end_scan(s)
           [] s.pc = "for_xml" ->
                IF s.xi <= Len(s.found_xmls) THEN parse_xml(s) ELSE end_xmls(s)
           [] s.pc = "for_bug" ->
                IF s.bi <= Len(s.bug_list) THEN process_bug_old(s)
                ELSE end_bugs_old(s)

\* The state in which the run from s names its output file, or ends without
\* one (an exception, or parse_bugs_old's "return None").
RECURSIVE run(_)
run(s) == IF s.pc \in {"name", "raised", "returned"} THEN s ELSE run(step(s))

\* ------------------------------------------------------------------ inputs

\* The most archives in the directory.
MaxArchives == 2

Programs == {"parse_bugs", "parse_bugs_old"}

\* Patch description texts: two with the labelled sub-version (one with and
\* one without white space around the colon), one without the label.
Text_19_21 == <<"D", "a", "t", "a", "b", "a", "s", "e", " ", "R", "e", "l", "e", "a", "s", "e", " ", "U", "p", "d", "a", "t", "e", " ", ":", " ", "1", "9", ".", "2", "1", " ", "(", "3", "5", "6", "4", "3", "1", "0", "7", ")">>
Text_19_22 == <<"D", "a", "t", "a", "b", "a", "s", "e", " ", "R", "e", "l", "e", "a", "s", "e", " ", "U", "p", "d", "a", "t", "e", ":", "1", "9", ".", "2", "2">>
Text_plain == <<"O", "C", "W", " ", "R", "E", "L", "E", "A", "S", "E", " ", "U", "P", "D", "A", "T", "E", " ", "1", "9", ".", "3">>

\* <bug number=... description=.../> elements; None is a missing attribute.
Bug_1 == [number |-> <<"1">>, description |-> <<"x">>]
Bug_1y == [number |-> <<"1">>, description |-> <<"y">>]
Bug_2 == [number |-> <<"2">>, description |-> None]
Bug_3 == [number |-> <<"3">>, description |-> <<"z">>]
Bug_no_number == [number |-> None, description |-> <<"x">>]
Bug_None == [number |-> <<"N", "o", "n", "e">>, description |-> <<"x">>]
Bug_empty == [number |-> <<>>, description |-> <<"e">>]

Descriptor(text, bugs) ==
    [wellformed |-> TRUE, patch_description |-> text, bugs |-> bugs]

\* Content that is not well-formed XML.
Malformed == [wellformed |-> FALSE, patch_description |-> Absent, bugs |-> <<>>]

Descriptors ==
    { Descriptor(Text_19_21, <<Bug_1, Bug_2>>),
      Descriptor(Text_19_22, <<Bug_2, Bug_3>>),
      Descriptor(Absent, <<Bug_1, Bug_3>>),
      Descriptor(None, <<Bug_2>>),
      Descriptor(Text_19_22, <<>>),
      Descriptor(Text_plain, <<Bug_3>>),
      Descriptor(Text_19_21, <<Bug_no_number, Bug_None>>),
      Descriptor(Text_plain, <<Bug_1, Bug_1y, Bug_empty>>),
      Descriptor(Text_19_22, <<Bug_no_number>>),
      Malformed }

Member(name, data) == [name |-> name, data |-> data]

Readme == Member(<<"R", "E", "A", "D", "M", "E", ".", "t", "x", "t">>, Malformed)

\* The archive files: one that is no archive, one without a descriptor, one
\* per descriptor, and one with two descriptors around another member.
ArchiveFiles ==
    { [corrupt |-> TRUE, members |-> <<>>],
      [corrupt |-> FALSE, members |-> <<Readme>>],
      [corrupt |-> FALSE,
       members |-> <<Member(<<"a", "/", "i", "n", "v", "e", "n", "t", "o", "r", "y", ".", "x", "m", "l">>, Descriptor(Text_plain, <<Bug_3>>)),
                     Readme,
                     Member(<<"b", "/", "i", "n", "v", "e", "n", "t", "o", "r", "y", ".", "x", "m", "l">>, Descriptor(Text_19_21, <<Bug_3, Bug_1>>))>>] }
    \cup { [corrupt |-> FALSE, members |-> <<Member(inventory_xml, d)>>] :
             d \in Descriptors }

\* Paths as glob.glob("./*.zip") returns them.
Path_9 == <<".", "/", "p", "_", "R", "U", "_", "9", ".", "z", "i", "p">>
Path_10 == <<".", "/", "p", "_", "R", "U", "_", "1", "0", ".", "z", "i", "p">>
Path_19 == <<".", "/", "p", "_", "R", "U", "_", "1", "9", ".", "z", "i", "p">>
Path_q19 == <<".", "/", "q", "_", "R", "U", "_", "1", "9", ".", "z", "i", "p">>
Path_19_4 == <<".", "/", "p", "_", "R", "U", "_", "1", "9", ".", "4", ".", "z", "i", "p">>
Path_19_10 == <<".", "/", "p", "_", "R", "U", "_", "1", "9", ".", "1", "0", ".", "z", "i", "p">>
Path_19u4 == <<".", "/", "p", "_", "R", "U", "_", "1", "9", "_", "4", ".", "z", "i", "p">>
Path_base == <<".", "/", "b", "a", "s", "e", ".", "z", "i", "p">>

Paths == {Path_9, Path_10, Path_19, Path_q19, Path_19_4, Path_19_10,
          Path_19u4, Path_base}

\* The paths of the directories whose archive files vary, listed by the
\* directory in this order.
ListedPaths == <<Path_19, Path_10, Path_9>>

\* The archive files of the directories whose paths vary.
PlainFiles ==
    { [corrupt |-> FALSE,
       members |-> <<Member(inventory_xml, Descriptor(Text_19_21, <<Bug_1, Bug_2>>))>>],
      [corrupt |-> FALSE,
       members |-> <<Member(inventory_xml, Descriptor(Text_19_22, <<Bug_2, Bug_3>>))>>] }

\* The orders in which a directory may list the paths ps.
Listings(ps) ==
    {l \in [1..Cardinality(ps) -> ps] : \A i, j \in DOMAIN l : l[i] = l[j] => i = j}

\* The state is the record s.
Is(s) ==
    /\ program = s.program
    /\ directory = s.directory
    /\ listing = s.listing
    /\ pc = s.pc
    /\ exception = s.exception
    /\ zip_files = s.zip_files
    /\ zi = s.zi
    /\ inventory_files = s.inventory_files
    /\ ii = s.ii
    /\ root = s.root
    /\ found_xmls = s.found_xmls
    /\ xi = s.xi
    /\ patch_text = s.patch_text
    /\ bug_list = s.bug_list
    /\ bi = s.bi
    /\ output_lines = s.output_lines
    /\ bug_positions = s.bug_positions
    /\ last_db_version = s.last_db_version
    /\ total_bugs = s.total_bugs
    /\ processed_count = s.processed_count
    /\ output_file = s.output_file
    /\ written = s.written

\* Up to MaxArchives archives of any content, under fixed names.
InitFiles ==
    \E n \in 0..MaxArchives :
        \E dir \in [{ListedPaths[i] : i \in 1..n} -> ArchiveFiles] :
            \E prog \in Programs :
                Is(start(prog, dir, SubSeq(ListedPaths, 1, n)))

\* Up to MaxArchives archives under any names, listed in any order.
InitPaths ==
    \E ps \in {q \in SUBSET Paths : Cardinality(q) <= MaxArchives} :
        \E dir \in [ps -> PlainFiles] :
            \E list \in Listings(ps) :
                \E prog \in Programs :
                    Is(start(prog, dir, list))

Init == InitFiles \/ InitPaths

\* ----------------------------------------------------------------- actions

\* The output file name given on the command line, or None.
Arguments == {None, <<"o", "u", "t", ".", "t", "x", "t">>}

\* datetime.now().strftime("%Y%m%d")
Dates == {<<"2", "0", "2", "4", "0", "1", "3", "1">>, <<"2", "0", "2", "4", "0", "2", "0", "1">>}

\* Both programs: the directory is listed and the listing sorted.
Glob == pc = "glob" /\ Becomes(glob_sorted(State))

OpenZip ==
    /\ program = "parse_bugs" /\ pc = "for_zip" /\ zi <= Len(zip_files)
    /\ Becomes(open_zip(State))

EndZips ==
    /\ program = "parse_bugs" /\ pc = "for_zip" /\ zi > Len(zip_files)
    /\ Becomes(end_zips(State))

ReadInventory ==
    /\ program = "parse_bugs" /\ pc = "for_inv" /\ ii <= Len(inventory_files)
    /\ Becomes(read_inventory(State))

CloseZip ==
    /\ program = "parse_bugs" /\ pc = "for_inv" /\ ii > Len(inventory_files)
    /\ Becomes(close_zip(State))

ProcessBug ==
    /\ program = "parse_bugs" /\ pc = "for_bug" /\ bi <= Len(root.bugs)
    /\ Becomes(process_bug(State))

EndBugs ==
    /\ program = "parse_bugs" /\ pc = "for_bug" /\ bi > Len(root.bugs)
    /\ Becomes(end_bugs(State))

ScanZip ==
    /\ program = "parse_bugs_old" /\ pc = "for_zip" /\ zi <= Len(zip_files)
    /\ Becomes(scan_zip(State))

EndScan ==
    /\ program = "parse_bugs_old" /\ pc = "for_zip" /\ zi > Len(zip_files)
    /\ Becomes(end_scan(State))

ParseXml ==
    /\ program = "parse_bugs_old" /\ pc = "for_xml" /\ xi <= Len(found_xmls)
    /\ Becomes(parse_xml(State))

EndXmls ==
    /\ program = "parse_bugs_old" /\ pc = "for_xml" /\ xi > Len(found_xmls)
    /\ Becomes(end_xmls(State))

ProcessBugOld ==
    /\ program = "parse_bugs_old" /\ pc = "for_bug" /\ bi <= Len(bug_list)
    /\ Becomes(process_bug_old(State))

EndBugsOld ==
    /\ program = "parse_bugs_old" /\ pc = "for_bug" /\ bi > Len(bug_list)
    /\ Becomes(end_bugs_old(State))

\* Both programs: the file is named and written.
WriteOutput ==
    /\ pc = "name"
    /\ \E arg \in Arguments, today \in Dates :
           Becomes(write_output(State, arg, today))

Next ==
    \/ Glob
    \/ OpenZip \/ EndZips \/ ReadInventory \/ CloseZip \/ ProcessBug \/ EndBugs
    \/ ScanZip \/ EndScan \/ ParseXml \/ EndXmls \/ ProcessBugOld \/ EndBugsOld
    \/ WriteOutput

Spec == Init /\ [][Next]_vars

\* ------------------------------------------------- what the properties use

\* The bug lines of a sequence of lines, by index.
BugLineIndexes(lines) == {i \in 1..Len(lines) : IsBugLine(lines[i])}

\* The header lines of a sequence of lines, by index.
HeaderIndexes(lines) == {i \in 1..Len(lines) : IsHeader(lines[i])}

\* The identifier a bug line shows.
ShownNumber(line) == line[2]

\* The descriptors of the readable archives among zips, in the order a run
\* over zips meets them, each with its archive's path.
RECURSIVE found_in(_, _)
found_in(dir, zips) ==
    IF zips = <<>> THEN <<>>
    ELSE (IF dir[Head(zips)].corrupt THEN <<>>
          ELSE triples(Head(zips), dir[Head(zips)],
                       inventory_names(dir[Head(zips)].members)))
         \o found_in(dir, Tail(zips))

\* The run has written its file.
Finished == pc = "done"

\* The file got its default name (the command line gave none).
DefaultNamed == output_file[1] \in {"Fixed_Bug_For_", "Fixed_Bug_"}

\* ---------------------------------------------------------------- C1

\* C1: in the output written by either entry point, no bug identifier has
\* more than one bug line: two bug lines never show the same identifier.
C1_NoIdentifierTwice ==
    Finished =>
        \A i, j \in BugLineIndexes(written) :
            ShownNumber(written[i]) = ShownNumber(written[j]) => i = j

\* ---------------------------------------------------------------- C8

\* C8: a bug element without a number attribute is dropped: it adds no entry
\* to the seen-bug set and no bug line, so the seen-bug set never holds None
\* and there are as many bug lines as identifiers seen.
C8_MissingNumberDropped ==
    /\ None \notin DOMAIN bug_positions
    /\ Cardinality(BugLineIndexes(output_lines)) = Cardinality(DOMAIN bug_positions)

\* ---------------------------------------------------------------- C5

\* The archives of the directory that are no valid container.
CorruptPaths == {p \in DOMAIN directory : directory[p].corrupt}

\* The run has ended, with or without a file.
Ended == pc \in {"done", "raised", "returned"}

\* The run of the same program over the directory without its corrupt
\* archives, up to the naming of the output file.
RunWithoutCorrupt ==
    run(start(program,
              [p \in DOMAIN directory \ CorruptPaths |-> directory[p]],
              SelectSeq(listing, LAMBDA p : ~directory[p].corrupt)))

\* C5: with one corrupt archive in the directory the run still completes,
\* and its output is that of the run over the directory without the archive.
C5_CorruptArchiveSkipped ==
    (Ended /\ Cardinality(CorruptPaths) = 1) =>
        /\ exception # "zipfile.BadZipFile"
        /\ exception = RunWithoutCorrupt.exception
        /\ output_lines = RunWithoutCorrupt.output_lines
        /\ (pc = "returned") = (RunWithoutCorrupt.pc = "returned")

\* ---------------------------------------------------------------- C6

\* The descriptor the next step reads, when the next step reads one.
ReadsDescriptor ==
    \/ program = "parse_bugs" /\ pc = "for_inv" /\ ii <= Len(inventory_files)
    \/ program = "parse_bugs_old" /\ pc = "for_xml" /\ xi <= Len(found_xmls)

DescriptorRead ==
    IF program = "parse_bugs"
    THEN z_read(directory[zip_files[zi]], inventory_files[ii])
    ELSE found_xmls[xi].xml_content

\* C6: reading a descriptor that is not well-formed raises nothing: it parses
\* to ("", []), the seen-bug set, the output lines and the latest sub-version
\* stay as they are, and the run goes on.
C6_MalformedDescriptorSkipped ==
    [][(ReadsDescriptor /\ ~DescriptorRead.wellformed) =>
          /\ parse_bugs_from_xml_content(DescriptorRead)
               = [patch_text |-> <<>>, bug_list |-> <<>>]
          /\ pc' # "raised"
          /\ bug_positions' = bug_positions
          /\ output_lines' = output_lines
          /\ last_db_version' = last_db_version]_vars

\* ---------------------------------------------------------------- C9

\* C9: the content written does not depend on the order in which the
\* directory lists the archives: the run over any other listing of the same
\* directory writes the same lines.
C9_ListingOrderIrrelevant ==
    (Finished /\ DefaultNamed) =>
        \A list \in Listings(DOMAIN directory) :
            run(start(program, directory, list)).output_lines = written

\* ---------------------------------------------------------------- C3

\* The display name a header line shows: the version token of its archive.
ShownName(line) == line[2]

\* The version key as the claim states it: the integers of the maximal digit
\* runs of the token, then the token.
KeyOfToken(token) == <<digit_runs(token, <<>>), token>>

\* C3: the header lines stand in ascending order of the version keys of their
\* archives, integers compared as numbers: never a greater key before a
\* smaller one, and in particular never 10 before 9, 19.10 before 19.4,
\* 19.4 before its prefix 19, or a token with digits before the token "base",
\* which has none.
C3_HeadersInVersionOrder ==
    \A i, j \in HeaderIndexes(output_lines) :
        i < j =>
            LET first == ShownName(output_lines[i])
                second == ShownName(output_lines[j])
            IN  /\ ~KeyLess(KeyOfToken(second), KeyOfToken(first))
                /\ ~(first = <<"1", "0">> /\ second = <<"9">>)
                /\ ~(first = <<"1", "9", ".", "1", "0">> /\ second = <<"1", "9", ".", "4">>)
                /\ ~(first = <<"1", "9", ".", "4">> /\ second = <<"1", "9">>)
                /\ ~(digit_runs(first, <<>>) # <<>> /\ second = <<"b", "a", "s", "e">>)

\* The directory listed 10 before 9, and the report has the block of 9 before
\* the block of 10.
C3_Witness ==
    /\ Finished
    /\ listing = <<Path_10, Path_9>>
    /\ \E i, j \in HeaderIndexes(written) :
           i < j /\ ShownName(written[i]) = <<"9">> /\ ShownName(written[j]) = <<"1", "0">>

\* ---------------------------------------------------------------- C10

\* The line of output_lines that the Python index n names.
LineAt(n) == output_lines[n + 1]

\* The seen-bug record and the output of parse_bugs_from_zip are in step.
InStep ==
    /\ \A k \in DOMAIN bug_positions :
           /\ bug_positions[k] + 1 \in BugLineIndexes(output_lines)
           /\ LineAt(bug_positions[k]) = bug_line(k, LineAt(bug_positions[k])[4])
    /\ \A i \in BugLineIndexes(output_lines) :
           \E k \in DOMAIN bug_positions : bug_positions[k] + 1 = i
    /\ \A k, l \in DOMAIN bug_positions :
           bug_positions[k] = bug_positions[l] => k = l

\* No step takes a key from bug_positions, moves one, or changes or takes
\* away a line of output_lines.
OnlyGrows ==
    /\ \A k \in DOMAIN bug_positions :
           k \in DOMAIN bug_positions' /\ bug_positions'[k] = bug_positions[k]
    /\ Len(output_lines') >= Len(output_lines)
    /\ SubSeq(output_lines', 1, Len(output_lines)) = output_lines

\* C10: in parse_bugs_from_zip, at every point of the run, each key k of
\* bug_positions indexes the bug line rendered for k, every bug line is that
\* of exactly one key, and a step only adds keys and appends lines.
C10_PositionsMatchLines ==
    /\ [](program = "parse_bugs" => InStep)
    /\ [][program = "parse_bugs" => OnlyGrows]_vars

\* parse_bugs_from_zip is in its second block, has two numbers on record and
\* has just passed over a bug element whose number it had seen.
C10_Witness ==
    /\ program = "parse_bugs"
    /\ pc = "for_bug"
    /\ bi > 1
    /\ Cardinality(HeaderIndexes(output_lines)) = 2
    /\ Cardinality(DOMAIN bug_positions) >= 2
    /\ root.bugs[bi - 1].number \in DOMAIN bug_positions
    /\ bug_positions[root.bugs[bi - 1].number] + 1 < Len(output_lines) - 1

\* ------------------------------------------------- blocks and descriptors

\* The descriptors the run meets, in its order (once the listing is sorted).
Met == found_in(directory, zip_files)

\* The bug elements of a descriptor with a number attribute that is not empty.
HasNumberedBug(xml) == \E i \in DOMAIN xml.bugs : Truthy(xml.bugs[i].number)

\* The descriptors for which the program puts out a block: well-formed ones
\* with a patch description text, and for parse_bugs_old those among them with
\* a bug element that has a non-empty number.
HasBlock(xml) ==
    /\ xml.wellformed
    /\ Truthy(patch_text_of(xml))
    /\ program = "parse_bugs_old" => HasNumberedBug(xml)

\* The identifiers that occur in a descriptor: the number attributes of its
\* bug elements.
Numbers(xml) ==
    IF xml.wellformed
    THEN {xml.bugs[i].number : i \in DOMAIN xml.bugs} \ {None}
    ELSE {}

\* The description that goes with the first bug element of xml numbered k.
FirstDescription(xml, k) ==
    LET i == CHOOSE i \in DOMAIN xml.bugs :
                 /\ xml.bugs[i].number = k
                 /\ \A j \in DOMAIN xml.bugs : xml.bugs[j].number = k => i <= j
    IN  OrEmpty(xml.bugs[i].description)

\* The least of a non-empty set of numbers.
Least(S) == CHOOSE x \in S : \A y \in S : x <= y

\* The index of the n-th header line of the file.
NthHeader(n) ==
    CHOOSE i \in HeaderIndexes(written) :
        Cardinality({j \in HeaderIndexes(written) : j <= i}) = n

\* The lines of the block of the d-th descriptor met: those after the header
\* of its block and before the next header.
BlockLines(d) ==
    LET b == Cardinality({e \in 1..d : HasBlock(Met[e].xml_content)})
    IN  {i \in 1..Len(written) :
           /\ NthHeader(b) < i
           /\ b < Cardinality(HeaderIndexes(written)) => i < NthHeader(b + 1)}

\* ---------------------------------------------------------------- C2

Taken(xml) ==
    IF program = "parse_bugs_old"
    THEN {k \in Numbers(xml) : Truthy(k)}
    ELSE Numbers(xml)

\* The descriptors met that have a block, by index.
Blocked == {d \in DOMAIN Met : HasBlock(Met[d].xml_content)}

NameOfRead ==
    IF program = "parse_bugs"
    THEN version_of(splitext(basename(zip_files[zi])))
    ELSE version_of(splitext(basename(found_xmls[xi].zip_file)))

\* The patch description text of the descriptor the next step reads, "" when
\* it is not well-formed.
TextOfRead ==
    IF DescriptorRead.wellformed THEN patch_text_of(DescriptorRead) ELSE <<>>

\* The step appends one header line and one description line, and no more.
AppendsBlockHead ==
    output_lines' = output_lines
                      \o <<header_line(NameOfRead), description_line(TextOfRead)>>

\* C4 as stated: the step that reads a descriptor appends its header line and
\* its description line if its patch description text is not empty, and
\* nothing otherwise.
C4_HeaderWheneverText ==
    [][ReadsDescriptor =>
          IF Truthy(TextOfRead) THEN AppendsBlockHead
          ELSE output_lines' = output_lines]_vars

\* C4 as amended: parse_bugs_from_zip appends the two lines if and only if the
\* text is not empty; process_all_xml_files if and only if the text is not
\* empty and the descriptor has a bug element with a non-empty number; a
\* descriptor that is not well-formed gets nothing.
C4_HeaderPerProgram ==
    [][ReadsDescriptor =>
          IF /\ Truthy(TextOfRead)
             /\ program = "parse_bugs_old" => HasNumberedBug(DescriptorRead)
          THEN AppendsBlockHead
          ELSE output_lines' = output_lines]_vars

\* process_all_xml_files has passed over a first descriptor that has a text
\* and no numbered bug, and has put out nothing for it.
C4_Witness ==
    /\ program = "parse_bugs_old"
    /\ pc = "for_xml"
    /\ xi = 2
    /\ found_xmls[1].xml_content.wellformed
    /\ Truthy(patch_text_of(found_xmls[1].xml_content))
    /\ ~HasNumberedBug(found_xmls[1].xml_content)
    /\ output_lines = <<>>

\* ---------------------------------------------------------------- C7

\* The descriptors among ds whose text has the labelled sub-version, by index
\* in Met.
Labelled(ds) ==
    {d \in ds : /\ Met[d].xml_content.wellformed
                /\ Truthy(patch_text_of(Met[d].xml_content))
                /\ re_search(patch_text_of(Met[d].xml_content)) # None}

\* The greatest of a non-empty set of numbers.
Greatest(S) == CHOOSE x \in S : \A y \in S : x >= y

\* The default name has the sub-version of the last descriptor of ds with a
\* labelled one, and has none when ds has no such descriptor.
NamedAfterLastOf(ds) ==
    IF Labelled(ds) = {}
    THEN output_file[1] = "Fixed_Bug_"
    ELSE /\ output_file[1] = "Fixed_Bug_For_"
         /\ output_file[2]
              = re_search(patch_text_of(Met[Greatest(Labelled(ds))].xml_content))

\* C7 as stated: the default name has the sub-version of the last descriptor
\* met whose text has the label, and the fallback name is used only when no
\* descriptor met has it.
C7_NameFromLastLabelled ==
    (Finished /\ DefaultNamed) => NamedAfterLastOf(DOMAIN Met)

\* C7 as amended: the same over the descriptors that have a block.
C7_NameFromLastBlock ==
    (Finished /\ DefaultNamed) => NamedAfterLastOf(Blocked)

\* Two descriptors with a block, the first labelled 19.21 and the last 19.22:
\* the default name has 19.22.
C7_Witness ==
    /\ Finished
    /\ DefaultNamed
    /\ Cardinality(Labelled(Blocked)) = 2
    /\ re_search(patch_text_of(Met[Least(Labelled(Blocked))].xml_content)) = <<"1", "9", ".", "2", "1">>
    /\ output_file[2] = <<"1", "9", ".", "2", "2">>

====
